---- MODULE Spec2Model ----
(***************************************************************************)
(* Incremental ingestion cursor of signalsifter: the resume watermark,     *)
(* the duplicate-safe insert and the per-record commit, as implemented by  *)
(*   backfill.py                 run_backfill              (table messages) *)
(*   discord_extractor.py        DiscordExtractor.extract_messages         *)
(*   discord_db_schema.py        DiscordDatabase.insert_message, driven by *)
(*   discord_browser_extractor.py  extract_channel_messages                *)
(*   manual_scroll_extractor.py  ManualScrollExtractor.save_messages_to_db *)
(*   persistent_capture.py       PersistentDiscordCapture                  *)
(* One database file serves one of these script families (each creates its *)
(* message table with CREATE TABLE IF NOT EXISTS, so the first DDL wins);   *)
(* the variable path records which.                                        *)
(***************************************************************************)
EXTENDS Integers, Sequences, FiniteSets, TLC

VARIABLES
    path,              \* which script family owns this database file
    messages,          \* rows of table messages (backfill.py)
    discord_messages,  \* rows of table discord_messages (the Discord scripts)
    channels,          \* table channels (backfill.py) / discord_channels
    discord_guilds,    \* table discord_guilds (discord_extractor.py)
    discord_extraction_log,  \* table discord_extraction_log: the status of
                             \* row id is discord_extraction_log[id]
    discord_status,    \* table discord_status: extraction_count per channel
    processed,         \* column processed: the ids of the rows of Table
                       \* whose processed is 1 (it is 0 for the others)
    entities,          \* tables entities / discord_entities: how many times
                       \* a message's entity rows were inserted, per
                       \* message_row_id / message_id
    run,               \* the ingestion runs: one record per process
    pipeline,          \* run_channel_pipeline.py: the wrapper process
    analyzer,          \* a GeminiAnalyzer object and the requests it sent
    sync,              \* daily_gemini_sync.py: the sync_channel call
    gemini_tables,     \* channels.last_gemini_export, messages.
                       \* gemini_processed and table gemini_analysis_logs
    discord_pipeline,  \* run_discord_pipeline.py: the wrapper process
    batches            \* the processor.py / discord_processor.py processes

\* The processes downstream of ingestion.
downstream ==
    <<pipeline, analyzer, sync, gemini_tables, discord_pipeline, batches>>

\* The tables ingestion writes, and the ingestion runs.
ingestion ==
    <<path, messages, discord_messages, channels, discord_guilds,
      discord_extraction_log, discord_status, processed, entities, run>>

vars == <<path, messages, discord_messages, channels, discord_guilds,
          discord_extraction_log, discord_status, processed, entities, run,
          downstream>>

(***************************************************************************)
(* Bounds.                                                                 *)
(***************************************************************************)
\* Number of ingestion processes a behaviour starts (they may overlap).
MaxRuns == 2
\* Number of records the upstream source yields for a channel.
SrcLen == 3
\* Number of execute() / commit() calls of one run that raise.
MaxFailures == 1
\* Number of chunks _chunk_messages splits the input of one call into.
MaxChunks == 2
\* Number of sync_channel calls.
MaxSyncs == 2

Runs == 1..MaxRuns
\* The channel ids a run is given.  Telegram channels and browser URLs are
\* told apart by channel id alone; discord_extractor.py keys every query on
\* (guild_id, channel_id), so there the pairs (G, A) and (H, A) are the two
\* channels.
Channels == {"A", "B"}
Guilds == {"G", "H"}
\* The content a fetch observes.  Messages are edited upstream after the
\* first run: run 1 reads "v1", every later run "v2".
Content(r) == IF r = 1 THEN "v1" ELSE "v2"
Paths == {"backfill", "extractor", "database", "manual", "capture"}

\* Python's None / SQL NULL is the empty sequence, a value v is <<v>>.
None == << >>
Some(v) == <<v>>

(***************************************************************************)
(* The upstream source: oldest first, ids ascending, one record delivered  *)
(* twice.  Ids 9, 10, 10, 11, 11 ...: they cross from one decimal digit to two, as *)
(* snowflake ids cross from 18 to 19 digits.  Telegram numbers the         *)
(* messages of every channel from 1, so two channels hold equal ids.       *)
(***************************************************************************)
SrcId(i) == 9 + (i \div 2)
\* Instants are counted in half days: day d begins at Midnight(d), its
\* afternoon is Midnight(d) + 1.  Message 9 is sent on the morning of day 1,
\* message 10 on the afternoon of day 2, message 11 on the morning of day 3.
SrcDay(i) == 1 + (i \div 2)
Midnight(day) == 2 * day
Day(instant) == instant \div 2
SrcDate(i) == Midnight(SrcDay(i)) + ((i \div 2) % 2)
Source == [i \in 1..SrcLen |-> [id |-> SrcId(i), date |-> SrcDate(i)]]
SourceIds == {Source[i].id : i \in 1..SrcLen}
Dates == {Source[i].date : i \in 1..SrcLen}

(***************************************************************************)
(* str(), int() and SQLite's comparison of TEXT values (BINARY collation:  *)
(* memcmp, then the shorter string is smaller).  A text is the sequence of *)
(* its decimal digits.                                                     *)
(***************************************************************************)
RECURSIVE str(_)
str(n) == IF n < 10 THEN <<n>> ELSE Append(str(n \div 10), n % 10)

RECURSIVE int(_)
int(s) == IF s = << >> THEN 0 ELSE 10 * int(SubSeq(s, 1, Len(s) - 1)) + s[Len(s)]

RECURSIVE TextLess(_, _)
TextLess(a, b) ==
    IF a = << >> THEN b # << >>
    ELSE IF b = << >> THEN FALSE
    ELSE IF a[1] # b[1] THEN a[1] < b[1]
    ELSE TextLess(Tail(a), Tail(b))

\* SELECT MAX(message_id) over an INTEGER column: NULL over no rows.
SqlMaxInt(vals) ==
    IF vals = {} THEN None
    ELSE Some(CHOOSE x \in vals : \A y \in vals : y <= x)

\* SELECT MAX(message_id) over a TEXT column: the greatest text, not the
\* greatest number.
SqlMaxText(vals) ==
    IF vals = {} THEN None
    ELSE Some(CHOOSE x \in vals : \A y \in vals : y = x \/ TextLess(y, x))

\* The rowid SQLite gives a new row: one more than the largest in use.
NextRowId(tbl) ==
    IF tbl = {} THEN 1
    ELSE 1 + (CHOOSE n \in {x.id : x \in tbl} : \A x \in tbl : x.id <= n)

(***************************************************************************)
(* The tables.  A row of messages is                                       *)
(*   [id, channel_id, message_id (INTEGER), text]                          *)
(* and a row of discord_messages is                                        *)
(*   [id, guild_id, channel_id, message_id (TEXT), content]                *)
(* (guild_id is the column server_id of discord_db_schema.py).  The other  *)
(* columns are a function of the source record and are folded into text /  *)
(* content.                                                                *)
(***************************************************************************)
Table == IF path = "backfill" THEN messages ELSE discord_messages

\* db_schema.sql is not among the sources: the unique key of messages is the
\* one the specification states, (channel_id, message_id).
ConflictsBackfill(tbl, row) ==
    {x \in tbl : x.channel_id = row.channel_id /\ x.message_id = row.message_id}

\* Mutant: the table has no unique index.
ConflictsExtractor_NoIndex(tbl, row) == {}

\* UNIQUE(guild_id, channel_id, message_id)
ConflictsExtractor(tbl, row) ==
    {x \in tbl : /\ x.guild_id = row.guild_id
                 /\ x.channel_id = row.channel_id
                 /\ x.message_id = row.message_id}

\* message_id TEXT PRIMARY KEY
ConflictsDatabase(tbl, row) ==
    {x \in tbl : x.message_id = row.message_id}

\* The table ManualScrollExtractor writes has a column extraction_timestamp
\* that no DDL among the sources creates; "ignore duplicates" is keyed as
\* the specification states, on (channel_id, message_id).
ConflictsManual(tbl, row) ==
    {x \in tbl : x.channel_id = row.channel_id /\ x.message_id = row.message_id}

Conflicts(tbl, row) ==
    CASE path = "backfill" -> ConflictsBackfill(tbl, row)
      [] path = "extractor" -> ConflictsExtractor(tbl, row)
      [] path \in {"database", "capture"} -> ConflictsDatabase(tbl, row)
      [] OTHER -> ConflictsManual(tbl, row)

\* Mutant: a plain INSERT into a table without the unique key.
InsertOrIgnore_Plain(tbl, row) ==
    tbl \cup {[row EXCEPT !.id = NextRowId(tbl)]}

\* INSERT OR IGNORE: a row that conflicts with a unique key is dropped.
InsertOrIgnore(tbl, row) ==
    IF Conflicts(tbl, row) # {} THEN tbl
    ELSE tbl \cup {[row EXCEPT !.id = NextRowId(tbl)]}

\* INSERT OR REPLACE: the conflicting rows are deleted, the new row goes in.
InsertOrReplace(tbl, row) ==
    LET kept == tbl \ Conflicts(tbl, row)
    IN  kept \cup {[row EXCEPT !.id = NextRowId(tbl)]}

(***************************************************************************)
(* The runs.  pc: idle -> loop <-> commit -> done | stopped | crashed       *)
(* (-> ended), or idle -> failed (-> ended) when the source cannot be       *)
(* reached.                                                                *)
(*   pending    rows inserted on the run's connection and not committed    *)
(*   exit_code  the exit code of the process, None while it runs or when   *)
(*              it was killed                                              *)
(*   dry_run    extract_channel_messages(..., dry_run)                     *)
(*   extraction_log_id  self.extraction_log_id of the DiscordBrowser-      *)
(*              Extractor object the call runs on                          *)
(*   last_msg_id  the watermark read at the start                          *)
(*   pos        index of the next source record                            *)
(*   message_count  the count the run reports at its end: message_count in *)
(*              discord_extractor.py, saved_count in save_messages_to_db,  *)
(*              captured_count in persistent_capture.py                    *)
(* History, read by the properties only:                                   *)
(*   snap       ids stored for the run's channel when it started           *)
(*              (for its guild and channel in discord_extractor.py)        *)
(*   inserted   ids whose INSERT added a row (rowcount > 0)                 *)
(*   failures   how many execute() / commit() calls of the run raised       *)
(* When a later run starts, a run that has ended keeps only that it has    *)
(* ended, its start date, whether one of its writes failed, and the        *)
(* extraction_log_id of its extractor object.                              *)
(***************************************************************************)
IdleRun ==
    [pc |-> "idle", channel |-> "A", guild |-> "G", from_date |-> None,
     to_date |-> None, last_msg_id |-> None, pos |-> 1, pending |-> {},
     message_count |-> 0, exit_code |-> None, dry_run |-> FALSE,
     extraction_log_id |-> None, snap |-> {}, inserted |-> {}, failures |-> 0]

Archived(x) ==
    [IdleRun EXCEPT !.pc = "ended", !.from_date = x.from_date,
                    !.extraction_log_id = x.extraction_log_id,
                    !.failures = IF x.failures > 0 THEN 1 ELSE 0]

Active(r) == run[r].pc \in {"loop", "commit"}
Ended(r) ==
    run[r].pc \in {"done", "stopped", "raised", "crashed", "failed", "ended"}

\* Runs are numbered in the order they start.
CanStart(r) == /\ run[r].pc = "idle"
               /\ \A q \in Runs : q < r => run[q].pc # "idle"

\* What the run's connection reads: the committed rows and its own.
Visible(r) == Table \cup run[r].pending

\* No ingestion run is in progress.
NoneActive == \A q \in Runs : ~Active(q)

\* SQLite has one writer: an INSERT waits while another connection holds an
\* open write transaction.
WriteLockFree(r) == \A q \in Runs \ {r} : run[q].pending = {}

\* The rows a run's queries address: WHERE channel_id = ? in backfill.py,
\* WHERE guild_id = ? AND channel_id = ? in discord_extractor.py.
ChannelRows(tbl, g, c) ==
    IF path = "extractor"
    THEN {y \in tbl : y.guild_id = g /\ y.channel_id = c}
    ELSE {y \in tbl : y.channel_id = c}

\* Their message ids, as numbers.
StoredIds(tbl, g, c) ==
    {(IF path = "backfill" THEN x.message_id ELSE int(x.message_id)) :
        x \in ChannelRows(tbl, g, c)}

\* --from / --to: none, a start date, or a start and an end date (the day
\* of the second source record).  The command line parses YYYY-MM-DD to the
\* midnight that begins the day.
Filters == {<<None, None>>, <<Some(Midnight(SrcDay(2))), None>>,
            <<Some(Midnight(SrcDay(2))), Some(Midnight(SrcDay(2)))>>}

\* The row of a channel or guild: present or not, and its column
\* last_backfilled_at.  The current time is named by the run that reads the
\* clock and the place it does so: <<r, "start">> in extract_guild_info /
\* extract_channel_info, <<r, "end">> after the loop.
NoRow == [present |-> FALSE, last_backfilled_at |-> None]
Now(r, phase) == <<r, phase>>

\* INSERT OR IGNORE INTO channels (tg_id, title, username, created_at):
\* last_backfilled_at is left NULL.
ChannelsInsertOrIgnore(tbl, c) ==
    IF tbl[c].present THEN tbl
    ELSE [tbl EXCEPT ![c] = [present |-> TRUE, last_backfilled_at |-> None]]

\* INSERT OR REPLACE INTO discord_guilds / discord_channels (...,
\* last_backfilled_at) VALUES (..., datetime.now(timezone.utc).isoformat())
InfoInsertOrReplace(tbl, k, now) ==
    [tbl EXCEPT ![k] = [present |-> TRUE, last_backfilled_at |-> Some(now)]]

\* Mutant: the closing UPDATE is missing.
SetLastBackfilledAt_Missing(tbl, c, now) == tbl

\* UPDATE channels SET last_backfilled_at = ? WHERE tg_id = ?
SetLastBackfilledAt(tbl, c, now) ==
    IF tbl[c].present THEN [tbl EXCEPT ![c].last_backfilled_at = Some(now)]
    ELSE tbl

\* run_channel_pipeline.py before it is started.
\*   pc  idle -> backfill -> count <-> processor, count -> summarizer ->
\*       stats -> done; error after a RuntimeError of run_cmd
\*   run the ingestion run that is the pipeline's backfill.py child
\*   returncode  res.returncode of the last child
IdlePipeline ==
    [pc |-> "idle", channel |-> "A", process_limit |-> 0, run |-> 1,
     returncode |-> 0]

\* GeminiAnalyzer.__init__.  Times are kept as ages, the seconds gone by
\* since, and an age of a minute or more is kept as a minute.
\*   remaining      chunks the current analyze_messages call has yet to send
\*   new_day        datetime.now().date() != self.last_request_day
\*   request_times  self.request_times
\*   sent           when the last three requests went out
\*   sent_today     requests that went out since midnight
NewAnalyzer ==
    [remaining |-> 0, daily_requests |-> 0, new_day |-> FALSE,
     request_times |-> << >>, sent |-> << >>, sent_today |-> 0]

\* DailyGeminiSync before a sync_channel call.
\*   pc  idle -> analyze -> save -> update -> mark -> log -> idle
\*   messages  the ids of the rows get_new_messages_since returned
\*   snap      the ids of the channel's rows at that time
\*   result    what the last sync_channel call returned
\*   raised    the step of the last call that raised, if one did
\*   saved     save_analysis_result has returned in this call
\*   force_reprocess  the argument of the call
\*   retry     the call before, with the same arguments, ended in a failed
\*             analysis
\*   forced    a call with force_reprocess has been made
IdleSync ==
    [pc |-> "idle", channel |-> "A", force_reprocess |-> FALSE,
     messages |-> {}, snap |-> {}, result |-> None, raised |-> None, saved |-> FALSE, retry |-> FALSE,
     forced |-> FALSE]

\* The columns and rows the sync writes, before the first sync.
\*   clock     the sync_channel calls made so far (the wall clock)
\*   included  how many successful syncs a message was part of
NoGeminiRows ==
    [last_gemini_export |-> [c \in Channels |-> None],
     gemini_processed |-> {}, gemini_analysis_logs |-> << >>,
     included |-> << >>, clock |-> 0]

\* The flags of run_discord_pipeline.py that select stages.
Flags ==
    {"skip_extraction", "skip_processing", "skip_analysis", "analysis_only",
     "dry_run", "test_mode"}

\* run_discord_pipeline.py before it is started.
\*   pc  idle -> extraction -> processing -> analysis -> summary -> exited
\*   args     the flags given
\*   success  the local of main
\*   started  the stages started, in order
\*   failed   the stages whose command failed
IdleDiscordPipeline ==
    [pc |-> "idle", args |-> {}, success |-> TRUE, started |-> << >>,
     failed |-> {}, exit_code |-> None]

\* The processor processes that may run side by side.
Batches == {1, 2}

\* A processor batch (process_batch, process_discord_batch) before it starts.
\*   pc       idle -> insert -> update -> commit -> closed, or crashed
\*   rows     the rows its SELECT fetched
\*   todo     the fetched rows the loop has not handled yet
\*   inserts  the rows whose entity INSERTs are in its open transaction
\*   marks    the ids whose UPDATE ... processed = 1 is in its open transaction
\*   stored   the ids of the rows whose entity rows it has committed
\*   marked   the ids whose processed = 1 it has committed
\*   lost     the rows whose entity INSERTs were rolled back
IdleBatch ==
    [pc |-> "idle", rows |-> {}, todo |-> {}, inserts |-> {}, marks |-> {},
     stored |-> {}, marked |-> {}, lost |-> {}]

Init ==
    /\ path \in Paths
    /\ messages = {}
    /\ discord_messages = {}
    /\ channels = [c \in Channels |-> NoRow]
    /\ discord_guilds = [g \in Guilds |-> NoRow]
    /\ discord_extraction_log = << >>
    /\ discord_status = [c \in Channels |-> 0]
    /\ processed = {}
    /\ entities = << >>
    /\ run = [r \in Runs |-> IdleRun]
    /\ pipeline = IdlePipeline
    /\ analyzer = NewAnalyzer
    /\ sync = IdleSync
    /\ gemini_tables = NoGeminiRows
    /\ discord_pipeline = IdleDiscordPipeline
    /\ batches = [b \in Batches |-> IdleBatch]

(***************************************************************************)
(* Start of a run: the connection is opened and the watermark is read.     *)
(***************************************************************************)
Started(c, g, f, t, last) ==
    [pc |-> "loop", channel |-> c, guild |-> g, from_date |-> f,
     to_date |-> t, last_msg_id |-> last, pos |-> 1, pending |-> {},
     message_count |-> 0, exit_code |-> None, dry_run |-> FALSE,
     extraction_log_id |-> None, snap |-> StoredIds(Table, g, c),
     inserted |-> {}, failures |-> 0]

Begin(r, rec) ==
    run' = [q \in Runs |->
              IF q = r THEN rec
              ELSE IF Ended(q) THEN Archived(run[q])
              ELSE run[q]]

\* cur.execute("SELECT MAX(message_id) FROM messages WHERE channel_id = ?")
\* last_msg_id = row[0] if row else None
WatermarkBackfill(tbl, c) ==
    SqlMaxInt({x.message_id : x \in {y \in tbl : y.channel_id = c}})

\* SELECT MAX(message_id) FROM discord_messages WHERE guild_id = ? AND
\* channel_id = ?;  last_msg_id = int(row[0]) if row and row[0] else None
WatermarkExtractor(tbl, g, c) ==
    LET row == SqlMaxText({x.message_id :
                   x \in {y \in tbl : y.guild_id = g /\ y.channel_id = c}})
    IN  IF row # None THEN Some(int(row[1])) ELSE None

StartBackfill(r, c, f, t) ==
    /\ path = "backfill"
    /\ CanStart(r)
    /\ WriteLockFree(r)
    /\ channels' = ChannelsInsertOrIgnore(channels, c)
    /\ Begin(r, Started(c, "G", f, t, WatermarkBackfill(messages, c)))
    /\ UNCHANGED <<path, messages, discord_messages, discord_guilds,
                   discord_extraction_log, discord_status, processed,
                   entities, downstream>>

StartExtractor(r, g, c, f, t) ==
    /\ path = "extractor"
    /\ CanStart(r)
    /\ WriteLockFree(r)
    /\ discord_guilds' = InfoInsertOrReplace(discord_guilds, g, Now(r, "start"))
    /\ channels' = InfoInsertOrReplace(channels, c, Now(r, "start"))
    /\ Begin(r, Started(c, g, f, t, WatermarkExtractor(discord_messages, g, c)))
    /\ UNCHANGED <<path, messages, discord_messages, discord_extraction_log,
                   discord_status, processed, entities, downstream>>

\* run_channel_pipeline.run_cmd: subprocess.run(cmd_list), RuntimeError when
\* the return code is not 0; main then does not reach the processor loop.
run_cmd(returncode) == IF returncode # 0 THEN "RuntimeError" ELSE "returned"

\* The run ends before the loop: the process exits with exit_code.
Failed(c, g, exit_code) ==
    [IdleRun EXCEPT !.pc = "failed", !.channel = c, !.guild = g,
                    !.exit_code = Some(exit_code)]

\* run_backfill cannot reach its source.  "auth": client.start() raises and
\* nothing catches it, the interpreter exits with code 1.  "channel":
\* get_entity raises, run_backfill prints, disconnects and returns, and the
\* script ends normally.
StartBackfillFails(r, c, why) ==
    /\ path = "backfill"
    /\ CanStart(r)
    /\ why \in {"auth", "channel"}
    /\ Begin(r, Failed(c, "G", IF why = "auth" THEN 1 ELSE 0))
    /\ UNCHANGED <<path, messages, discord_messages, channels, discord_guilds,
                   discord_extraction_log, discord_status, processed, entities, downstream>>

\* discord_extractor.py cannot reach its source.  "auth": setup() raises.
\* "guild": extract_guild_info raises ValueError before it writes.
\* "channel": extract_guild_info has stored the guild row when
\* extract_channel_info raises ValueError.  __main__ catches every
\* Exception, prints it, and the script ends normally.
StartExtractorFails(r, g, c, why) ==
    /\ path = "extractor"
    /\ CanStart(r)
    /\ why \in {"auth", "guild", "channel"}
    /\ IF why = "channel"
       THEN /\ WriteLockFree(r)
            /\ discord_guilds' =
                   InfoInsertOrReplace(discord_guilds, g, Now(r, "start"))
       ELSE UNCHANGED discord_guilds
    /\ Begin(r, Failed(c, g, 0))
    /\ UNCHANGED <<path, messages, discord_messages, channels,
                   discord_extraction_log, discord_status, processed,
                   entities, downstream>>

\* insert_server / insert_channel: INSERT OR REPLACE of the row (these
\* tables have no column last_backfilled_at).
ServerChannelInsert(tbl, k) ==
    [tbl EXCEPT ![k] = [present |-> TRUE, last_backfilled_at |-> None]]

\* log_extraction_start: INSERT INTO discord_extraction_log (...) VALUES
\* (..., 'running'); the new row's id is cursor.lastrowid.
log_extraction_start(log) == Append(log, "running")

\* complete_extraction: UPDATE discord_extraction_log SET end_time = ?,
\* status = ?, error_message = ? WHERE id = ?
complete_extraction(log, log_id, status) ==
    IF log_id \in DOMAIN log THEN [log EXCEPT ![log_id] = status] ELSE log

\* Mutant: the completion does not look at dry_run.
CompleteIfLogged_AlsoDry(log, dry_run, extraction_log_id, status) ==
    IF extraction_log_id # None
    THEN complete_extraction(log, extraction_log_id[1], status)
    ELSE log

\* if not dry_run and self.extraction_log_id:
\*     self.db.complete_extraction(self.extraction_log_id, status)
CompleteIfLogged(log, dry_run, extraction_log_id, status) ==
    IF ~dry_run /\ extraction_log_id # None /\ extraction_log_id[1] # 0
    THEN complete_extraction(log, extraction_log_id[1], status)
    ELSE log

\* A call runs on a new DiscordBrowserExtractor (extraction_log_id = None
\* from __init__) or on the object the previous call ran on.
SameObject(r, reuse) == reuse => r > 1 /\ Ended(r - 1)
Attribute(r, reuse) == IF reuse THEN run[r - 1].extraction_log_id ELSE None

\* extract_channel_messages up to its loop: it reads no watermark;
\* months_back is a cutoff date.  Unless dry_run, it stores the server and
\* channel rows and opens the extraction log row.
StartBrowser(r, g, c, f, dry_run, reuse) ==
    /\ path = "database"
    /\ CanStart(r)
    /\ SameObject(r, reuse)
    /\ IF dry_run
       THEN /\ Begin(r, [Started(c, g, f, None, None) EXCEPT
                            !.dry_run = TRUE,
                            !.extraction_log_id = Attribute(r, reuse)])
            /\ UNCHANGED <<channels, discord_guilds, discord_extraction_log>>
       ELSE /\ WriteLockFree(r)
            /\ discord_guilds' = ServerChannelInsert(discord_guilds, g)
            /\ channels' = ServerChannelInsert(channels, c)
            /\ discord_extraction_log' =
                   log_extraction_start(discord_extraction_log)
            /\ Begin(r, [Started(c, g, f, None, None) EXCEPT
                            !.extraction_log_id =
                                Some(Len(discord_extraction_log) + 1)])
    /\ UNCHANGED <<path, messages, discord_messages, discord_status,
                   processed, entities, downstream>>

\* extract_channel_messages ends before its loop.  "url": parse_discord_url
\* finds no ids, ValueError is raised inside the try, the handler marks the
\* object's extraction log row failed and raises again; main returns 1.
\* "navigate": navigate_to_channel returns False and the call returns [];
\* main reports success and returns 0.
StartBrowserFails(r, c, dry_run, reuse, why) ==
    /\ path = "database"
    /\ CanStart(r)
    /\ SameObject(r, reuse)
    /\ why \in {"url", "navigate"}
    /\ discord_extraction_log' =
          IF why = "url"
          THEN CompleteIfLogged(discord_extraction_log, dry_run,
                                Attribute(r, reuse), "failed")
          ELSE discord_extraction_log
    /\ Begin(r, [Failed(c, "G", IF why = "url" THEN 1 ELSE 0) EXCEPT
                    !.dry_run = dry_run,
                    !.extraction_log_id = Attribute(r, reuse)])
    /\ UNCHANGED <<path, messages, discord_messages, channels, discord_guilds,
                   discord_status, processed, entities, downstream>>

\* save_messages_to_db(messages): every row goes to 'manual_extraction'.
StartManual(r) ==
    /\ path = "manual"
    /\ CanStart(r)
    /\ Begin(r, Started("manual_extraction", "manual_extraction", None, None, None))
    /\ UNCHANGED <<path, messages, discord_messages, channels, discord_guilds,
                   discord_extraction_log, discord_status, processed, entities, downstream>>

\* capture_visible_messages(page): every row goes to 'persistent_capture'.
StartCapture(r) ==
    /\ path = "capture"
    /\ CanStart(r)
    /\ Begin(r, Started("persistent_capture", "persistent_capture", None, None, None))
    /\ UNCHANGED <<path, messages, discord_messages, channels, discord_guilds,
                   discord_extraction_log, discord_status, processed, entities, downstream>>

(***************************************************************************)
(* The loop over the source.                                               *)
(***************************************************************************)
\* if from_date and msg_date < from_date: continue
BeforeFrom(from_date, date) == from_date # None /\ date < from_date[1]

\* if to_date and msg_date > to_date: continue
AfterTo(to_date, date) == to_date # None /\ date > to_date[1]

\* Mutant: the resume check is missing.
AlreadyProcessed_Never(last_msg_id, id) == FALSE

\* Mutant: the resume check is off by one.
AlreadyProcessed_OffByOne(last_msg_id, id) ==
    last_msg_id # None /\ last_msg_id[1] # 0 /\ id <= last_msg_id[1] + 1

\* if last_msg_id and msg.id <= last_msg_id: continue
AlreadyProcessed(last_msg_id, id) ==
    last_msg_id # None /\ last_msg_id[1] # 0 /\ id <= last_msg_id[1]

AtRecord(r) == run[r].pc = "loop" /\ run[r].pos <= SrcLen
Rec(r) == Source[run[r].pos]

Skips(r) ==
    \/ BeforeFrom(run[r].from_date, Rec(r).date)
    \/ AfterTo(run[r].to_date, Rec(r).date)
    \/ AlreadyProcessed(run[r].last_msg_id, Rec(r).id)

\* The row the run builds from the source record.  The browser path takes
\* message_id from the element's id with the prefix "message-" removed
\* (or data-list-item-id as it is): the id alone, whatever the channel.
Row(r, content) ==
    IF path = "backfill"
    THEN [id |-> 0, channel_id |-> run[r].channel, message_id |-> Rec(r).id,
          text |-> content]
    ELSE [id |-> 0, guild_id |-> run[r].guild, channel_id |-> run[r].channel,
          message_id |-> str(Rec(r).id), content |-> content]

Skip(r) ==
    /\ AtRecord(r)
    /\ Skips(r)
    /\ run' = [run EXCEPT ![r].pos = @ + 1]
    /\ UNCHANGED <<path, messages, discord_messages, channels, discord_guilds,
                   discord_extraction_log, discord_status, processed, entities, downstream>>

\* cur.execute("INSERT OR IGNORE ..."): the row joins the connection's open
\* transaction.  backfill.py and discord_extractor.py commit next;
\* save_messages_to_db goes on to the next message.
Execute(r, content) ==
    /\ path \in {"backfill", "extractor", "manual"}
    /\ AtRecord(r)
    /\ ~Skips(r)
    /\ WriteLockFree(r)
    /\ LET after == InsertOrIgnore(Visible(r), Row(r, content))
           added == after # Visible(r)
       IN  run' = [run EXCEPT
                     ![r].pending = after \ Table,
                     ![r].inserted = IF added THEN @ \cup {Rec(r).id} ELSE @,
                     ![r].message_count =
                         IF path = "manual" /\ added THEN @ + 1 ELSE @,
                     ![r].pc = IF path = "manual" THEN "loop" ELSE "commit",
                     ![r].pos = IF path = "manual" THEN @ + 1 ELSE @]
    /\ UNCHANGED <<path, messages, discord_messages, channels, discord_guilds,
                   discord_extraction_log, discord_status, processed, entities, downstream>>

\* conn.commit() returns: the open transaction becomes durable.
Commit(r) ==
    /\ run[r].pc = "commit"
    /\ IF path = "backfill"
       THEN messages' = messages \cup run[r].pending /\ UNCHANGED discord_messages
       ELSE discord_messages' = discord_messages \cup run[r].pending
            /\ UNCHANGED messages
    /\ run' = [run EXCEPT ![r].pending = {}, ![r].pc = "loop", ![r].pos = @ + 1,
                          ![r].message_count =
                              IF path = "extractor" THEN @ + 1 ELSE @]
    /\ UNCHANGED <<path, channels, discord_guilds, discord_extraction_log,
                   discord_status, processed, entities, downstream>>

\* cur.execute raises: "except Exception: print(...)", on to the next record.
ExecuteFails(r) ==
    /\ run[r].failures < MaxFailures
    /\ AtRecord(r)
    /\ ~Skips(r)
    /\ run' = [run EXCEPT ![r].failures = @ + 1, ![r].pos = @ + 1]
    /\ UNCHANGED <<path, messages, discord_messages, channels, discord_guilds,
                   discord_extraction_log, discord_status, processed, entities, downstream>>

\* conn.commit() raises: SQLite either keeps the transaction open (BUSY) or
\* has rolled it back (FULL, IOERR); the loop goes on to the next record.
CommitFails(r, keep) ==
    /\ run[r].failures < MaxFailures
    /\ run[r].pc = "commit"
    /\ run' = [run EXCEPT ![r].failures = @ + 1,
                          ![r].pending = IF keep THEN @ ELSE {},
                          ![r].pc = "loop",
                          ![r].pos = @ + 1]
    /\ UNCHANGED <<path, messages, discord_messages, channels, discord_guilds,
                   discord_extraction_log, discord_status, processed, entities, downstream>>

\* messages.append(message_data), and unless dry_run
\* DiscordDatabase.insert_message: its own connection, INSERT OR REPLACE,
\* commit, close.
InsertMessage(r, content) ==
    /\ path = "database"
    /\ AtRecord(r)
    /\ ~Skips(r)
    /\ IF run[r].dry_run
       THEN /\ UNCHANGED <<discord_messages, processed>>
            /\ run' = [run EXCEPT ![r].pos = @ + 1]
       ELSE /\ WriteLockFree(r)
            /\ discord_messages' =
                   InsertOrReplace(discord_messages, Row(r, content))
            /\ processed' = processed \cap {x.id : x \in discord_messages'}
            /\ run' = [run EXCEPT ![r].inserted = @ \cup {Rec(r).id},
                                  ![r].pos = @ + 1]
    /\ UNCHANGED <<path, messages, channels, discord_guilds,
                   discord_extraction_log, discord_status, entities, downstream>>

\* PersistentDiscordCapture.save_message_to_db: its own connection, INSERT
\* OR IGNORE, success = cursor.rowcount > 0, commit, close; the caller counts
\* the successes.
SaveMessage(r, content) ==
    /\ path = "capture"
    /\ AtRecord(r)
    /\ WriteLockFree(r)
    /\ LET after == InsertOrIgnore(discord_messages, Row(r, content))
           success == after # discord_messages
       IN  /\ discord_messages' = after
           /\ run' = [run EXCEPT
                        ![r].inserted = IF success THEN @ \cup {Rec(r).id} ELSE @,
                        ![r].message_count = IF success THEN @ + 1 ELSE @,
                        ![r].pos = @ + 1]
    /\ UNCHANGED <<path, messages, channels, discord_guilds,
                   discord_extraction_log, discord_status, processed,
                   entities, downstream>>

\* The source is exhausted: the closing commit (after UPDATE ... SET
\* last_backfilled_at in backfill.py and discord_extractor.py) makes whatever
\* the connection still holds durable.
Finish(r) ==
    /\ run[r].pc = "loop"
    /\ run[r].pos = SrcLen + 1
    /\ WriteLockFree(r)
    /\ IF path = "backfill"
       THEN messages' = messages \cup run[r].pending /\ UNCHANGED discord_messages
       ELSE discord_messages' = discord_messages \cup run[r].pending
            /\ UNCHANGED messages
    /\ channels' = IF path \in {"backfill", "extractor"}
                   THEN SetLastBackfilledAt(channels, run[r].channel, Now(r, "end"))
                   ELSE channels
    /\ IF path = "database"
       THEN /\ discord_extraction_log' =
                   CompleteIfLogged(discord_extraction_log, run[r].dry_run,
                                    run[r].extraction_log_id, "completed")
            /\ discord_status' =
                   IF ~run[r].dry_run /\ run[r].extraction_log_id # None
                   THEN [discord_status EXCEPT ![run[r].channel] = @ + 1]
                   ELSE discord_status
       ELSE UNCHANGED <<discord_extraction_log, discord_status>>
    /\ run' = [run EXCEPT ![r].pending = {}, ![r].pc = "done",
                          ![r].exit_code = Some(0)]
    /\ UNCHANGED <<path, discord_guilds, processed, entities, downstream>>

\* discord_extractor.py: channel.history raises, "except Exception" leaves
\* the loop and the run goes on to its closing UPDATE and commit.
SourceError(r) ==
    /\ path = "extractor"
    /\ AtRecord(r)
    /\ WriteLockFree(r)
    /\ discord_messages' = discord_messages \cup run[r].pending
    /\ channels' = SetLastBackfilledAt(channels, run[r].channel, Now(r, "end"))
    /\ run' = [run EXCEPT ![r].pending = {}, ![r].pc = "stopped",
                          ![r].exit_code = Some(0)]
    /\ UNCHANGED <<path, messages, discord_guilds, discord_extraction_log,
                   discord_status, processed, entities, downstream>>

\* extract_channel_messages: an exception inside the loop (a message
\* without timestamp, a lost page) reaches "except Exception": the object's
\* extraction log row is marked failed and the exception is raised again;
\* main returns 1.
BrowserError(r) ==
    /\ path = "database"
    /\ AtRecord(r)
    /\ discord_extraction_log' =
          CompleteIfLogged(discord_extraction_log, run[r].dry_run,
                           run[r].extraction_log_id, "failed")
    /\ run' = [run EXCEPT ![r].pc = "raised", ![r].exit_code = Some(1)]
    /\ UNCHANGED <<path, messages, discord_messages, channels, discord_guilds,
                   discord_status, processed, entities, downstream>>

\* The key the entity rows carry: entities.message_row_id is the row's id,
\* discord_entities.message_id is the row's message_id.
EntityKey(x) == IF path = "backfill" THEN x.id ELSE x.message_id

\* INSERT INTO entities / discord_entities for every row of the batch.
InsertEntities(ent, rows) ==
    LET keys == {EntityKey(x) : x \in rows}
    IN  [k \in DOMAIN ent \cup keys |->
            (IF k \in DOMAIN ent THEN ent[k] ELSE 0) +
            (IF k \in keys THEN 1 ELSE 0)]

\* SELECT ... WHERE processed = 0 ORDER BY ... LIMIT ?
Unprocessed == {x \in Table : x.id \notin processed}

\* process_batch (messages) and process_discord_batch (discord_messages):
\* every unprocessed row gets its entity rows and processed = 1.
ProcessBatch ==
    /\ path \in {"backfill", "database"}
    /\ \A q \in Runs : run[q].pending = {}
    /\ Unprocessed # {}
    /\ entities' = InsertEntities(entities, Unprocessed)
    /\ processed' = processed \cup {x.id : x \in Unprocessed}
    /\ UNCHANGED <<path, messages, discord_messages, channels, discord_guilds,
                   discord_extraction_log, discord_status, run, downstream>>

\* The process is cancelled or dies: an open transaction is rolled back.
Crash(r) ==
    /\ Active(r)
    /\ run' = [run EXCEPT ![r].pending = {}, ![r].pc = "crashed"]
    /\ UNCHANGED <<path, messages, discord_messages, channels, discord_guilds,
                   discord_extraction_log, discord_status, processed, entities, downstream>>

(***************************************************************************)
(* Specifications.                                                         *)
(*   Spec         one run at a time; writes may fail, the source may       *)
(*                raise, a run may be cancelled or die at any point.        *)
(*   SpecOverlap  a run may start while one other run is in progress (an   *)
(*                accidental double invocation); no faults.                *)
(*   SpecSession  backfill runs and browser extractor calls one after the  *)
(*                other, with the calls' own failures, and processor       *)
(*                batches in between.                                      *)
(***************************************************************************)
(* run_channel_pipeline.py: backfill.py, then processor.py until the       *)
(* channel has no unprocessed message, then summarizer.py and              *)
(* compute_stats.py.  Every child is run by run_cmd.                       *)
(***************************************************************************)
\* --process-limit: argparse type=int accepts every integer.
ProcessLimits == {-1, 0, 1, 2}

\* The date of a stored message (column date, from msg.date).
RowDate(x) ==
    CHOOSE d \in Dates :
        \E i \in 1..SrcLen : Source[i].id = x.message_id /\ Source[i].date = d

\* ORDER BY date (rows of equal date in rowid order).
Before(x, y) ==
    \/ RowDate(x) < RowDate(y)
    \/ RowDate(x) = RowDate(y) /\ x.id < y.id

\* SELECT ... FROM messages WHERE processed = 0 ORDER BY date LIMIT ?
\* (in SQLite a negative LIMIT is no limit).
SelectUnprocessed(limit) ==
    LET rows == {x \in messages : x.id \notin processed}
    IN  IF limit < 0 THEN rows
        ELSE {x \in rows : Cardinality({y \in rows : Before(y, x)}) < limit}

\* count_unprocessed: SELECT COUNT(*) FROM messages WHERE channel_id = ? AND
\* processed = 0
count_unprocessed(channel_id) ==
    Cardinality({x \in messages :
                    x.channel_id = channel_id /\ x.id \notin processed})

\* The step after a child has exited: run_cmd returns, or its RuntimeError
\* ends main.
AfterChild(returncode, next) ==
    IF run_cmd(returncode) = "returned" THEN next ELSE "error"

\* main: the arguments are parsed.
StartPipeline(c, limit) ==
    /\ path = "backfill"
    /\ pipeline.pc = "idle"
    /\ NoneActive
    /\ \E r \in Runs :
          /\ CanStart(r)
          /\ pipeline' = [pipeline EXCEPT !.pc = "backfill", !.channel = c,
                                          !.process_limit = limit, !.run = r]
    /\ UNCHANGED <<ingestion, analyzer, sync, gemini_tables,
                   discord_pipeline, batches>>

\* run_cmd(backfill_cmd): the child starts ...
PipelineBackfill ==
    /\ pipeline.pc = "backfill"
    /\ run[pipeline.run].pc = "idle"
    /\ \/ StartBackfill(pipeline.run, pipeline.channel, None, None)
       \/ \E why \in {"auth", "channel"} :
             StartBackfillFails(pipeline.run, pipeline.channel, why)

\* ... and has exited.
PipelineBackfillExit ==
    /\ pipeline.pc = "backfill"
    /\ Ended(pipeline.run)
    /\ run[pipeline.run].exit_code # None
    /\ pipeline' =
          [pipeline EXCEPT
              !.returncode = run[pipeline.run].exit_code[1],
              !.pc = AfterChild(run[pipeline.run].exit_code[1], "count")]
    /\ UNCHANGED <<ingestion, analyzer, sync, gemini_tables,
                   discord_pipeline, batches>>

\* remaining = count_unprocessed(channel_db_id); if remaining == 0: break
PipelineCount ==
    /\ pipeline.pc = "count"
    /\ pipeline' =
          [pipeline EXCEPT
              !.pc = IF count_unprocessed(pipeline.channel) = 0
                     THEN "summarizer" ELSE "processor"]
    /\ UNCHANGED <<ingestion, analyzer, sync, gemini_tables,
                   discord_pipeline, batches>>

\* run_cmd(["python", "processor.py", "--limit", str(args.process_limit)]):
\* process_batch handles the selected rows, of whatever channel, or the
\* child fails before its first row.
PipelineProcessor(returncode) ==
    /\ pipeline.pc = "processor"
    /\ returncode \in {0, 1}
    /\ LET rows == IF returncode = 0
                   THEN SelectUnprocessed(pipeline.process_limit) ELSE {}
       IN  /\ entities' = InsertEntities(entities, rows)
           /\ processed' = processed \cup {x.id : x \in rows}
    /\ pipeline' = [pipeline EXCEPT !.returncode = returncode,
                                    !.pc = AfterChild(returncode, "count")]
    /\ UNCHANGED <<path, messages, discord_messages, channels, discord_guilds,
                   discord_extraction_log, discord_status, run, analyzer,
                   sync, gemini_tables, discord_pipeline, batches>>

\* run_cmd(sum_cmd)
PipelineSummarizer(returncode) ==
    /\ pipeline.pc = "summarizer"
    /\ returncode \in {0, 1}
    /\ pipeline' = [pipeline EXCEPT !.returncode = returncode,
                                    !.pc = AfterChild(returncode, "stats")]
    /\ UNCHANGED <<ingestion, analyzer, sync, gemini_tables,
                   discord_pipeline, batches>>

\* run_cmd(stats_cmd)
PipelineStats(returncode) ==
    /\ pipeline.pc = "stats"
    /\ returncode \in {0, 1}
    /\ pipeline' = [pipeline EXCEPT !.returncode = returncode,
                                    !.pc = AfterChild(returncode, "done")]
    /\ UNCHANGED <<ingestion, analyzer, sync, gemini_tables,
                   discord_pipeline, batches>>


(***************************************************************************)
(* scripts/gemini_analyzer.py: the rate limits of one GeminiAnalyzer.      *)
(***************************************************************************)
REQUESTS_PER_MINUTE == 2
REQUESTS_PER_DAY == 50
\* The 60 of "now - t < 60" and of "60 - (now - self.request_times[0])".
Minute == 60
\* The seconds that go by between two steps.
Ticks == {20, 60}

Age(a, d) == IF a + d > Minute THEN Minute ELSE a + d
Elapse(ages, d) == [i \in DOMAIN ages |-> Age(ages[i], d)]
Fresh(a) == a < Minute

\* self.request_times = [t for t in self.request_times if now - t < 60]
RecentRequests(a) == SelectSeq(a.request_times, Fresh)

\* sleep_time = 60 - (now - self.request_times[0]) + 1, if two requests or
\* more are on the list; no sleep otherwise.
SleepTime(a) ==
    IF Len(RecentRequests(a)) >= REQUESTS_PER_MINUTE
    THEN Minute - RecentRequests(a)[1] + 1
    ELSE 0

\* _enforce_rate_limit: "now" is read before the sleep and appended after
\* it, so the entry is SleepTime old when the method returns.
\* (underscore dropped: _enforce_rate_limit)
enforce_rate_limit(a) ==
    [a EXCEPT !.request_times =
                  Append(Elapse(RecentRequests(a), SleepTime(a)),
                         Age(0, SleepTime(a))),
              !.daily_requests = @ + 1]

\* The last three requests that went out, the newest (age 0) last.
Sent(a, slept) ==
    LET all == Append(Elapse(a.sent, slept), 0)
    IN  IF Len(all) > 3 THEN Tail(all) ELSE all

\* _check_daily_limit: the counter restarts on a new day.
check_daily_limit(a) ==
    IF a.new_day THEN [a EXCEPT !.daily_requests = 0, !.new_day = FALSE]
    ELSE a

\* analyze_messages up to its loop: raise on the daily limit, else split the
\* input into chunks.
AnalyzeMessages(chunks) ==
    /\ analyzer.remaining = 0
    /\ chunks \in 1..MaxChunks
    /\ LET a == check_daily_limit(analyzer)
       IN  analyzer' =
              IF a.daily_requests < REQUESTS_PER_DAY
              THEN [a EXCEPT !.remaining = chunks]
              ELSE a
    /\ UNCHANGED <<ingestion, pipeline, sync, gemini_tables,
                   discord_pipeline, batches>>

\* One pass of the loop: _enforce_rate_limit, then the request goes out
\* (generate_content; an API error is caught and answered by the fallback).
SendChunk ==
    /\ analyzer.remaining > 0
    /\ analyzer' =
          [enforce_rate_limit(analyzer) EXCEPT
              !.remaining = @ - 1,
              !.sent = Sent(analyzer, SleepTime(analyzer)),
              !.sent_today = @ + 1]
    /\ UNCHANGED <<ingestion, pipeline, sync, gemini_tables,
                   discord_pipeline, batches>>

\* Time goes by, between two calls or while a request is answered.
Advance(d) ==
    /\ d \in Ticks
    /\ analyzer' = [analyzer EXCEPT !.request_times = Elapse(@, d),
                                    !.sent = Elapse(@, d)]
    /\ UNCHANGED <<ingestion, pipeline, sync, gemini_tables,
                   discord_pipeline, batches>>

\* Midnight passes.
Midnightfall ==
    /\ analyzer' = [analyzer EXCEPT !.new_day = TRUE, !.sent_today = 0]
    /\ UNCHANGED <<ingestion, pipeline, sync, gemini_tables,
                   discord_pipeline, batches>>


(***************************************************************************)
(* scripts/daily_gemini_sync.py: sync_channel.  Every database call of it  *)
(* opens its own connection and commits.  The channel's history is older   *)
(* than the first sync, and the clock moves on from sync to sync.          *)
(***************************************************************************)
\* datetime.now().isoformat() at the sync in progress.
SyncNow == Midnight(SrcDay(SrcLen) + 1) + gemini_tables.clock

\* get_new_messages_since: SELECT ... FROM messages WHERE channel_id = ? AND
\* text IS NOT NULL [AND date > ?] (every stored row has a text).
get_new_messages_since(channel_id, since_date) ==
    {x.id : x \in {y \in messages :
                      /\ y.channel_id = channel_id
                      /\ since_date # None => RowDate(y) > since_date[1]}}

\* since_date = last_gemini_export unless force_reprocess or none recorded.
SinceDate(c, force_reprocess) ==
    IF force_reprocess THEN None ELSE gemini_tables.last_gemini_export[c]

\* update_gemini_export_timestamp: UPDATE channels SET last_gemini_export
UpdateGeminiExportTimestamp(t, c, now) ==
    [t EXCEPT !.last_gemini_export[c] = Some(now)]

\* mark_messages_as_gemini_processed: UPDATE messages SET gemini_processed
MarkMessagesAsGeminiProcessed(t, message_ids) ==
    [t EXCEPT !.gemini_processed = @ \cup message_ids]

\* INSERT INTO gemini_analysis_logs (..., success, ...)
LogSession(t, c, success) ==
    [t EXCEPT !.gemini_analysis_logs =
                  Append(@, [channel_id |-> c, success |-> success])]

\* Mutant: the handler of a failed analysis also moves the export time.
LogFailedSession_Stamps(t, c, now) ==
    UpdateGeminiExportTimestamp(LogSession(t, c, 0), c, now)

\* except Exception: the failed session is logged with success = 0.
LogFailedSession(t, c, now) == LogSession(t, c, 0)

\* A successful sync counted for each of its messages.
Include(t, message_ids) ==
    [t EXCEPT !.included =
        [k \in DOMAIN @ \cup message_ids |->
            (IF k \in DOMAIN @ THEN @[k] ELSE 0) +
            (IF k \in message_ids THEN 1 ELSE 0)]]

\* sync_channel up to the analysis: the channel is looked up (return False
\* if it is not in the database) and the new messages are selected (return
\* True if there are none).
StartSync(c, force_reprocess) ==
    /\ path = "backfill"
    /\ sync.pc = "idle"
    /\ NoneActive
    /\ gemini_tables.clock < MaxSyncs
    /\ gemini_tables' = [gemini_tables EXCEPT !.clock = @ + 1]
    /\ LET selected == get_new_messages_since(c, SinceDate(c, force_reprocess))
           call ==
               [IdleSync EXCEPT
                   !.channel = c,
                   !.force_reprocess = force_reprocess,
                   !.forced = sync.forced \/ force_reprocess,
                   !.retry = /\ sync.channel = c
                             /\ sync.force_reprocess = force_reprocess
                             /\ sync.result = Some(FALSE)
                             /\ sync.raised = Some("analyze")]
       IN  sync' =
              IF ~channels[c].present
              THEN [call EXCEPT !.result = Some(FALSE)]
              ELSE IF selected = {}
              THEN [call EXCEPT !.result = Some(TRUE),
                                !.snap = get_new_messages_since(c, None)]
              ELSE [call EXCEPT !.pc = "analyze", !.messages = selected,
                                !.snap = get_new_messages_since(c, None)]
    /\ UNCHANGED <<ingestion, pipeline, analyzer, discord_pipeline, batches>>

\* A step of the try block raises: the handler logs the failed session and
\* sync_channel returns False.
SyncRaises ==
    /\ sync.pc \in {"analyze", "save"}
    /\ gemini_tables' = LogFailedSession(gemini_tables, sync.channel, SyncNow)
    /\ sync' = [sync EXCEPT !.pc = "idle", !.result = Some(FALSE),
                            !.raised = Some(sync.pc)]
    /\ UNCHANGED <<ingestion, pipeline, analyzer, discord_pipeline, batches>>

\* analysis_result = self.analyzer.analyze_messages(...)
SyncAnalyze ==
    /\ sync.pc = "analyze"
    /\ sync' = [sync EXCEPT !.pc = "save"]
    /\ UNCHANGED <<ingestion, pipeline, analyzer, gemini_tables,
                   discord_pipeline, batches>>

\* save_analysis_result(...)
SyncSave ==
    /\ sync.pc = "save"
    /\ sync' = [sync EXCEPT !.pc = "update", !.saved = TRUE]
    /\ UNCHANGED <<ingestion, pipeline, analyzer, gemini_tables,
                   discord_pipeline, batches>>

\* self.update_gemini_export_timestamp(channel_id, current_timestamp)
SyncUpdate ==
    /\ sync.pc = "update"
    /\ gemini_tables' =
          UpdateGeminiExportTimestamp(gemini_tables, sync.channel, SyncNow)
    /\ sync' = [sync EXCEPT !.pc = "mark"]
    /\ UNCHANGED <<ingestion, pipeline, analyzer, discord_pipeline, batches>>

\* self.mark_messages_as_gemini_processed(message_ids)
SyncMark ==
    /\ sync.pc = "mark"
    /\ gemini_tables' =
          MarkMessagesAsGeminiProcessed(gemini_tables, sync.messages)
    /\ sync' = [sync EXCEPT !.pc = "log"]
    /\ UNCHANGED <<ingestion, pipeline, analyzer, discord_pipeline, batches>>

\* self.log_analysis_session(...); return True
SyncLog ==
    /\ sync.pc = "log"
    /\ gemini_tables' =
          Include(LogSession(gemini_tables, sync.channel, 1), sync.messages)
    /\ sync' = [sync EXCEPT !.pc = "idle", !.result = Some(TRUE)]
    /\ UNCHANGED <<ingestion, pipeline, analyzer, discord_pipeline, batches>>


(***************************************************************************)
(* run_discord_pipeline.py: main, after the URL and the requirements were  *)
(* checked.  A stage's run_command returns whether its child exited 0.     *)
(***************************************************************************)
\* main: the arguments are parsed, success = True.
StartDiscordPipeline(args) ==
    /\ discord_pipeline.pc = "idle"
    /\ args \subseteq Flags
    /\ discord_pipeline' =
          [discord_pipeline EXCEPT !.pc = "extraction", !.args = args]
    /\ UNCHANGED <<ingestion, pipeline, analyzer, sync, gemini_tables,
                   batches>>

\* A stage that main enters: the command runs, and success = False if it
\* failed.  A stage that main does not enter is passed over.
Stage(name, entered, result, next) ==
    /\ discord_pipeline.pc = name
    /\ discord_pipeline' =
          IF entered
          THEN [discord_pipeline EXCEPT
                   !.pc = next,
                   !.started = Append(@, name),
                   !.success = @ /\ result,
                   !.failed = IF result THEN @ ELSE @ \cup {name}]
          ELSE [discord_pipeline EXCEPT !.pc = next]
    /\ UNCHANGED <<ingestion, pipeline, analyzer, sync, gemini_tables,
                   batches>>

\* if not args.skip_extraction and not args.analysis_only:
Extraction(result) ==
    Stage("extraction",
          /\ "skip_extraction" \notin discord_pipeline.args
          /\ "analysis_only" \notin discord_pipeline.args,
          result, "processing")

\* if success and not args.skip_processing and not args.analysis_only and
\* not args.dry_run:
Processing(result) ==
    Stage("processing",
          /\ discord_pipeline.success
          /\ "skip_processing" \notin discord_pipeline.args
          /\ "analysis_only" \notin discord_pipeline.args
          /\ "dry_run" \notin discord_pipeline.args,
          result, "analysis")

\* if success and not args.skip_analysis and not args.dry_run: (GEMINI_API_KEY
\* is set, check_requirements has returned True)
Analysis(result) ==
    Stage("analysis",
          /\ discord_pipeline.success
          /\ "skip_analysis" \notin discord_pipeline.args
          /\ "dry_run" \notin discord_pipeline.args,
          result, "summary")

\* The pipeline summary: "if args.dry_run: ... elif success: ... else:
\* return 1", and "return 0" after the try.
Summary ==
    /\ discord_pipeline.pc = "summary"
    /\ discord_pipeline' =
          [discord_pipeline EXCEPT
              !.pc = "exited",
              !.exit_code =
                  IF "dry_run" \in discord_pipeline.args THEN Some(0)
                  ELSE IF discord_pipeline.success THEN Some(0)
                  ELSE Some(1)]
    /\ UNCHANGED <<ingestion, pipeline, analyzer, sync, gemini_tables,
                   batches>>


(***************************************************************************)
(* processor.process_batch and discord_processor.process_discord_batch,    *)
(* statement by statement.  Each batch has its own connection; sqlite3     *)
(* opens a transaction before the first INSERT or UPDATE, and SQLite lets  *)
(* one connection write at a time.                                         *)
(***************************************************************************)
\* --limit of processor.py and discord_processor.py.
BatchLimits == {1, 2}

\* The timestamp of a stored Discord message.
Timestamp(x) ==
    CHOOSE d \in Dates :
        \E i \in 1..SrcLen :
            str(Source[i].id) = x.message_id /\ Source[i].date = d

\* ORDER BY date / ORDER BY timestamp (rows of equal value in rowid order).
Earlier(x, y) ==
    IF path = "backfill" THEN Before(x, y)
    ELSE \/ Timestamp(x) < Timestamp(y)
         \/ Timestamp(x) = Timestamp(y) /\ x.id < y.id

\* SELECT ... FROM discord_messages WHERE processed = 0 ORDER BY timestamp
\* LIMIT ? (no server_id, no channel_id).
SelectUnprocessedDiscord(limit) ==
    LET rows == {x \in discord_messages : x.id \notin processed}
    IN  IF limit < 0 THEN rows
        ELSE {x \in rows : Cardinality({y \in rows : Earlier(y, x)}) < limit}

\* rows = cur.fetchall()
FetchAll(limit) ==
    IF path = "backfill" THEN SelectUnprocessed(limit)
    ELSE SelectUnprocessedDiscord(limit)

\* The row the for loop is at.
LoopRow(batch) ==
    CHOOSE x \in batch.todo : \A y \in batch.todo \ {x} : Earlier(x, y)

\* The connection has an open transaction.
InTransaction(batch) == batch.inserts # {} \/ batch.marks # {}

\* No other connection holds the write lock.
BatchLockFree(b) == \A o \in Batches \ {b} : ~InTransaction(batches[o])

\* UPDATE messages SET processed = 1 WHERE id = ? /
\* UPDATE discord_messages SET processed = 1 WHERE message_id = ?
MarkIds(x) == {y.id : y \in {z \in Table : EntityKey(z) = EntityKey(x)}}

\* The step after the UPDATE: process_batch commits in the loop,
\* process_discord_batch after the loop.
AfterUpdate(todo) ==
    IF path = "backfill" \/ todo = {} THEN "commit" ELSE "insert"

\* conn = sqlite3.connect(DB_PATH); SELECT ...; rows = cur.fetchall()
BatchSelect(b, limit) ==
    /\ path \in {"backfill", "database"}
    /\ NoneActive
    /\ batches[b].pc = "idle"
    /\ LET rows == FetchAll(limit)
       IN  batches' =
              [batches EXCEPT
                  ![b].pc = IF rows = {} THEN "closed" ELSE "insert",
                  ![b].rows = rows,
                  ![b].todo = rows]
    /\ UNCHANGED <<ingestion, pipeline, analyzer, sync, gemini_tables,
                   discord_pipeline>>

\* INSERT INTO entities / discord_entities for the row the loop is at.
BatchInsert(b) ==
    /\ batches[b].pc = "insert"
    /\ BatchLockFree(b)
    /\ batches' =
          [batches EXCEPT
              ![b].pc = "update",
              ![b].inserts = @ \cup {LoopRow(batches[b])}]
    /\ UNCHANGED <<ingestion, pipeline, analyzer, sync, gemini_tables,
                   discord_pipeline>>

\* UPDATE ... SET processed = 1 for the row the loop is at.
BatchUpdate(b) ==
    /\ batches[b].pc = "update"
    /\ BatchLockFree(b)
    /\ LET x == LoopRow(batches[b])
       IN  batches' =
              [batches EXCEPT
                  ![b].pc = AfterUpdate(batches[b].todo \ {x}),
                  ![b].marks = @ \cup MarkIds(x),
                  ![b].todo = @ \ {x}]
    /\ UNCHANGED <<ingestion, pipeline, analyzer, sync, gemini_tables,
                   discord_pipeline>>

\* process_discord_batch: a statement that raises (the database is locked by
\* the other connection) is caught and printed, and the loop goes on.
BatchStatementFails(b) ==
    /\ path = "database"
    /\ batches[b].pc \in {"insert", "update"}
    /\ ~BatchLockFree(b)
    /\ LET x == LoopRow(batches[b])
       IN  batches' =
              IF batches[b].pc = "insert"
              THEN [batches EXCEPT ![b].pc = "update"]
              ELSE [batches EXCEPT
                       ![b].pc = AfterUpdate(batches[b].todo \ {x}),
                       ![b].todo = @ \ {x}]
    /\ UNCHANGED <<ingestion, pipeline, analyzer, sync, gemini_tables,
                   discord_pipeline>>

\* conn.commit(): the transaction's INSERTs and UPDATEs reach the database
\* together; conn.close() after the last row.
BatchCommit(b) ==
    /\ batches[b].pc = "commit"
    /\ entities' = InsertEntities(entities, batches[b].inserts)
    /\ processed' = processed \cup batches[b].marks
    /\ batches' =
          [batches EXCEPT
              ![b].pc = IF batches[b].todo = {} THEN "closed" ELSE "insert",
              ![b].stored = @ \cup {x.id : x \in batches[b].inserts},
              ![b].marked = @ \cup batches[b].marks,
              ![b].inserts = {},
              ![b].marks = {}]
    /\ UNCHANGED <<path, messages, discord_messages, channels, discord_guilds,
                   discord_extraction_log, discord_status, run, pipeline,
                   analyzer, sync, gemini_tables, discord_pipeline>>

\* The entities table after a connection is lost with the transaction open:
\* SQLite rolls the transaction back.
RolledBack_KeepsInserts(ent, inserts) == InsertEntities(ent, inserts)
RolledBack(ent, inserts) == ent

\* The process dies, or a statement of process_batch raises: the open
\* transaction is rolled back.
BatchCrash(b) ==
    /\ batches[b].pc \in {"insert", "update", "commit"}
    /\ entities' = RolledBack(entities, batches[b].inserts)
    /\ batches' =
          [batches EXCEPT
              ![b].pc = "crashed",
              ![b].lost = batches[b].inserts,
              ![b].inserts = {},
              ![b].marks = {}]
    /\ UNCHANGED <<path, messages, discord_messages, channels, discord_guilds,
                   discord_extraction_log, discord_status, processed, run,
                   pipeline, analyzer, sync, gemini_tables, discord_pipeline>>


(***************************************************************************)
OneActive == \A p, q \in Runs : Active(p) /\ Active(q) => p = q
MayStart(overlap) == IF overlap THEN OneActive ELSE NoneActive

DoStartBackfill(overlap) ==
    \E r \in Runs, c \in Channels, f \in Filters :
        MayStart(overlap) /\ StartBackfill(r, c, f[1], f[2])
DoStartExtractor(overlap) ==
    \E r \in Runs, g \in Guilds, f \in Filters :
        MayStart(overlap) /\ StartExtractor(r, g, "A", f[1], f[2])
DoStartBackfillFails ==
    \E r \in Runs, c \in Channels, why \in {"auth", "channel"} :
        NoneActive /\ StartBackfillFails(r, c, why)
DoStartExtractorFails ==
    \E r \in Runs, g \in Guilds, why \in {"auth", "guild", "channel"} :
        NoneActive /\ StartExtractorFails(r, g, "A", why)
DoStartBrowser(overlap) ==
    \E r \in Runs, c \in Channels, f \in {x \in Filters : x[2] = None} :
        MayStart(overlap) /\ StartBrowser(r, "G", c, f[1], FALSE, FALSE)
DoStartBrowserCall ==
    \E r \in Runs, c \in Channels, f \in {x \in Filters : x[2] = None},
       dry_run \in BOOLEAN, reuse \in BOOLEAN :
        NoneActive /\ StartBrowser(r, "G", c, f[1], dry_run, reuse)
DoStartBrowserFails ==
    \E r \in Runs, dry_run \in BOOLEAN, reuse \in BOOLEAN,
       why \in {"url", "navigate"} :
        NoneActive /\ StartBrowserFails(r, "A", dry_run, reuse, why)
DoStartManual(overlap) ==
    \E r \in Runs : MayStart(overlap) /\ StartManual(r)
DoStartCapture(overlap) ==
    \E r \in Runs : MayStart(overlap) /\ StartCapture(r)
DoSkip == \E r \in Runs : Skip(r)
DoExecute == \E r \in Runs : Execute(r, Content(r))
DoCommit == \E r \in Runs : Commit(r)
DoExecuteFails == \E r \in Runs : ExecuteFails(r)
DoCommitFails == \E r \in Runs, keep \in BOOLEAN : CommitFails(r, keep)
DoInsertMessage == \E r \in Runs : InsertMessage(r, Content(r))
DoSaveMessage == \E r \in Runs : SaveMessage(r, Content(r))
DoFinish == \E r \in Runs : Finish(r)
DoSourceError == \E r \in Runs : SourceError(r)
DoBrowserError == \E r \in Runs : BrowserError(r)
DoCrash == \E r \in Runs : Crash(r)

Next ==
    \/ DoStartBackfill(FALSE)
    \/ DoStartExtractor(FALSE)
    \/ DoStartBrowser(FALSE)
    \/ DoStartManual(FALSE)
    \/ DoStartCapture(FALSE)
    \/ DoStartBackfillFails
    \/ DoStartExtractorFails
    \/ DoSkip
    \/ DoExecute
    \/ DoCommit
    \/ DoExecuteFails
    \/ DoCommitFails
    \/ DoInsertMessage
    \/ DoSaveMessage
    \/ DoFinish
    \/ DoSourceError
    \/ DoCrash

NextOverlap ==
    \/ DoStartBackfill(TRUE)
    \/ DoStartExtractor(TRUE)
    \/ DoStartBrowser(TRUE)
    \/ DoStartManual(TRUE)
    \/ DoStartCapture(TRUE)
    \/ DoSkip
    \/ DoExecute
    \/ DoCommit
    \/ DoInsertMessage
    \/ DoSaveMessage
    \/ DoFinish

\* A session of extractor calls, on new objects or on the object of the
\* call before, dry or not, failing or not, and of processor batches.
NextSession ==
    \/ DoStartBackfill(FALSE)
    \/ DoStartBrowserCall
    \/ DoStartBrowserFails
    \/ DoSkip
    \/ DoExecute
    \/ DoCommit
    \/ DoInsertMessage
    \/ DoFinish
    \/ DoBrowserError
    \/ ProcessBatch

\* The channel pipeline.  An ingestion run may come before it; none runs
\* beside it.
DoStartPipeline ==
    \E c \in Channels, limit \in ProcessLimits : StartPipeline(c, limit)
DoPipelineProcessor == \E returncode \in {0, 1} : PipelineProcessor(returncode)
DoPipelineSummarizer ==
    \E returncode \in {0, 1} : PipelineSummarizer(returncode)
DoPipelineStats == \E returncode \in {0, 1} : PipelineStats(returncode)

NextPipeline ==
    \/ pipeline.pc = "idle" /\ DoStartBackfill(FALSE)
    \/ DoStartPipeline
    \/ PipelineBackfill
    \/ DoSkip
    \/ DoExecute
    \/ DoCommit
    \/ DoFinish
    \/ PipelineBackfillExit
    \/ PipelineCount
    \/ DoPipelineProcessor
    \/ DoPipelineSummarizer
    \/ DoPipelineStats

\* One GeminiAnalyzer, called again and again.
DoAnalyzeMessages == \E chunks \in 1..MaxChunks : AnalyzeMessages(chunks)
DoAdvance == \E d \in Ticks : Advance(d)

NextAnalyzer ==
    \/ DoAnalyzeMessages
    \/ SendChunk
    \/ DoAdvance
    \/ Midnightfall

\* Backfill runs, some of them killed, and syncs between them.
DoStartSync ==
    \E c \in Channels, force_reprocess \in BOOLEAN :
        StartSync(c, force_reprocess)

DoSyncBackfill ==
    \E r \in Runs, c \in Channels :
        sync.pc = "idle" /\ NoneActive /\ StartBackfill(r, c, None, None)

NextSync ==
    \/ DoSyncBackfill
    \/ DoSkip
    \/ DoExecute
    \/ DoCommit
    \/ DoFinish
    \/ DoCrash
    \/ DoStartSync
    \/ SyncRaises
    \/ SyncAnalyze
    \/ SyncSave
    \/ SyncUpdate
    \/ SyncMark
    \/ SyncLog

\* One invocation of run_discord_pipeline.py.
DoStartDiscordPipeline == \E args \in SUBSET Flags : StartDiscordPipeline(args)
DoExtraction == \E result \in BOOLEAN : Extraction(result)
DoProcessing == \E result \in BOOLEAN : Processing(result)
DoAnalysis == \E result \in BOOLEAN : Analysis(result)

NextDiscordPipeline ==
    \/ DoStartDiscordPipeline
    \/ DoExtraction
    \/ DoProcessing
    \/ DoAnalysis
    \/ Summary

\* Processor batches side by side, after the ingestion that stored the
\* messages.
BatchesIdle == \A b \in Batches : batches[b].pc = "idle"
DoBatchBackfill ==
    \E r \in Runs, c \in Channels :
        BatchesIdle /\ NoneActive /\ StartBackfill(r, c, None, None)
DoBatchBrowser ==
    \E r \in Runs, c \in Channels :
        BatchesIdle /\ NoneActive /\ StartBrowser(r, "G", c, None, FALSE, FALSE)
DoBatchSelect == \E b \in Batches, limit \in BatchLimits : BatchSelect(b, limit)
DoBatchInsert == \E b \in Batches : BatchInsert(b)
DoBatchUpdate == \E b \in Batches : BatchUpdate(b)
DoBatchStatementFails == \E b \in Batches : BatchStatementFails(b)
DoBatchCommit == \E b \in Batches : BatchCommit(b)
DoBatchCrash == \E b \in Batches : BatchCrash(b)

NextBatches ==
    \/ DoBatchBackfill
    \/ DoBatchBrowser
    \/ DoSkip
    \/ DoExecute
    \/ DoCommit
    \/ DoInsertMessage
    \/ DoFinish
    \/ DoBatchSelect
    \/ DoBatchInsert
    \/ DoBatchUpdate
    \/ DoBatchStatementFails
    \/ DoBatchCommit
    \/ DoBatchCrash

Spec == Init /\ [][Next]_vars

SpecOverlap == Init /\ [][NextOverlap]_vars

SpecSession == Init /\ [][NextSession]_vars

SpecAnalyzer == Init /\ [][NextAnalyzer]_vars

SpecSync == Init /\ [][NextSync]_vars

SpecDiscordPipeline == Init /\ [][NextDiscordPipeline]_vars

SpecBatches == Init /\ [][NextBatches]_vars

\* The pipeline and its children keep running while they can take a step.
SpecPipeline == Init /\ [][NextPipeline]_vars /\ WF_vars(NextPipeline)

(***************************************************************************)
(* Properties.                                                             *)
(***************************************************************************)
Unfiltered(r) == run[r].from_date = None /\ run[r].to_date = None
\* The run that started last.
IsLast(r) == run[r].pc # "idle" /\ \A q \in Runs : q > r => run[q].pc = "idle"
NoWriteFailed == \A q \in Runs : run[q].failures = 0
NoFilterUsed == \A q \in Runs : Unfiltered(q)
MyRows(r) == ChannelRows(Table, run[r].guild, run[r].channel)
MyIds(r) == StoredIds(Table, run[r].guild, run[r].channel)
Prefixes == {{Source[i].id : i \in 1..k} : k \in 0..SrcLen}
MaxSourceId == CHOOSE n \in SourceIds : \A m \in SourceIds : m <= n
\* a <= b for watermarks, None below every id.
WmLeq(a, b) == a = None \/ (b # None /\ a[1] <= b[1])

C2_WatermarkNeverDecreases ==
    [][/\ path = "backfill" =>
            \A c \in Channels :
                WmLeq(WatermarkBackfill(messages, c),
                      WatermarkBackfill(messages', c))
       /\ path = "extractor" =>
            \A g \in Guilds, c \in Channels :
                WmLeq(WatermarkExtractor(discord_messages, g, c),
                      WatermarkExtractor(discord_messages', g, c))]_vars

\* After a write of an earlier run failed, a later run has stored a record
\* above the watermark it read, and the watermark has moved up.
C2_Witness ==
    /\ path = "backfill"
    /\ \E q, r \in Runs :
         /\ q < r
         /\ run[q].failures > 0
         /\ run[r].last_msg_id # None
         /\ run[r].inserted # {}
         /\ WatermarkBackfill(messages, run[r].channel) # run[r].last_msg_id

\* C3: a run without date filter and without failure that starts from a
\* stored prefix of the source and reaches the end of the source has
\* inserted exactly the records that were not stored, and the channel then
\* holds the whole source.
C3_ResumeCompletes ==
    \A r \in Runs :
        (/\ path \in {"backfill", "extractor"}
         /\ run[r].pc = "done"
         /\ Unfiltered(r)
         /\ run[r].failures = 0
         /\ run[r].snap \in Prefixes)
        => /\ MyIds(r) = SourceIds
           /\ run[r].inserted = SourceIds \ run[r].snap

\* The first run was interrupted after the first record; the second run
\* finished and added the rest.
C3_Witness ==
    /\ path = "backfill"
    /\ NoWriteFailed
    /\ \E r \in Runs :
         /\ r > 1
         /\ run[r].pc = "done"
         /\ Unfiltered(r)
         /\ run[r].snap = {SrcId(1)}
         /\ run[r].inserted = SourceIds \ {SrcId(1)}
         /\ MyIds(r) = SourceIds

\* C4 (as claimed, for discord_extractor.py): when no write ever failed and
\* the last run had no date filter and completed, every record of the
\* source is stored for its channel.
C4_NoRecordLost ==
    \A r \in Runs :
        (/\ path = "extractor"
         /\ NoWriteFailed
         /\ IsLast(r)
         /\ run[r].pc = "done"
         /\ Unfiltered(r))
        => SourceIds \subseteq MyIds(r)

\* C5 (as claimed): when no run used a date filter and the last run
\* completed without a failure of its own, the records whose write failed
\* in earlier runs are stored: the channel holds the whole source.
C5_FailedWriteRetried ==
    \A r \in Runs :
        (/\ path \in {"backfill", "extractor"}
         /\ NoFilterUsed
         /\ IsLast(r)
         /\ run[r].pc = "done"
         /\ run[r].failures = 0)
        => SourceIds \subseteq MyIds(r)

\* C6 (as claimed): between two records every row the run has inserted is
\* committed, so that a crash there loses nothing.
C6_InsertedIsDurable ==
    \A r \in Runs :
        (run[r].pc = "loop" /\ run[r].failures = 0) => run[r].pending = {}

\* C7 (as claimed): no step changes the content of a stored row, whatever
\* the ingestion path.
C7_StoredRowKeepsContent ==
    [][\A x \in Table : \A y \in Table' :
          (x.channel_id = y.channel_id /\ x.message_id = y.message_id)
          => (IF path = "backfill" THEN x.text = y.text
              ELSE x.content = y.content)]_vars

\* C8: when two run_backfill runs without date filter on the same channel,
\* each started from a stored prefix of the source, have both completed, in
\* any interleaving, the channel holds exactly one row per source record and
\* its watermark is the highest source id.
C8_OverlapOneRowEach ==
    \A p, q \in Runs :
        (/\ path = "backfill"
         /\ p # q
         /\ run[p].pc = "done" /\ run[q].pc = "done"
         /\ run[p].channel = run[q].channel
         /\ Unfiltered(p) /\ Unfiltered(q)
         /\ run[p].snap \in Prefixes /\ run[q].snap \in Prefixes)
        => /\ MyIds(p) = SourceIds
           /\ Cardinality(MyRows(p)) = Cardinality(SourceIds)
           /\ WatermarkBackfill(messages, run[p].channel) = Some(MaxSourceId)

\* Both runs have completed and each of them inserted some record: their
\* writes interleaved.
C8_Witness ==
    /\ path = "backfill"
    /\ \E p, q \in Runs :
         /\ p # q
         /\ run[p].pc = "done" /\ run[q].pc = "done"
         /\ run[p].channel = run[q].channel
         /\ Unfiltered(p) /\ Unfiltered(q)
         /\ run[p].inserted # {} /\ run[q].inserted # {}

\* C9 (as claimed): the stored rows of a channel change only in a step of a
\* run on that channel.
C9_ChannelsIsolated ==
    [][\A c \in Channels :
          {x \in Table' : x.channel_id = c} # {x \in Table : x.channel_id = c}
          => \E r \in Runs : run[r].channel = c /\ run'[r] # run[r]]_vars

\* C10 (as claimed): the watermark a run has read is None when nothing was
\* stored for its channel and otherwise the numerically highest stored id.
C10_WatermarkIsHighestId ==
    \A r \in Runs :
        (path \in {"backfill", "extractor"} /\ Active(r))
        => run[r].last_msg_id = SqlMaxInt(run[r].snap)

\* C11 (as claimed): between two writes of a run without failed write, every
\* id the run has persisted is above the watermark it read at its start and
\* the watermark of its channel is the highest id it has persisted, the id
\* of the record written last (the source is ordered oldest first).
C11_WatermarkIsLastWritten ==
    \A r \in Runs :
        (/\ path \in {"backfill", "extractor"}
         /\ run[r].pc = "loop"
         /\ run[r].failures = 0
         /\ run[r].inserted # {})
        => /\ \A i \in run[r].inserted :
                run[r].last_msg_id = None \/ i > run[r].last_msg_id[1]
           /\ (IF path = "backfill"
               THEN WatermarkBackfill(messages, run[r].channel)
               ELSE WatermarkExtractor(discord_messages, run[r].guild,
                                       run[r].channel))
              = SqlMaxInt(run[r].inserted)

\* C12 (as claimed): a completed run with a start and an end date and
\* without failed write has persisted only records dated from the start day
\* to the end day, and every source record of these days that was above the
\* watermark read at the start is then stored.
C12_DateRangeInclusive ==
    \A r \in Runs :
        (/\ path = "extractor"
         /\ run[r].pc = "done"
         /\ run[r].failures = 0
         /\ run[r].from_date # None /\ run[r].to_date # None)
        => LET InRange(i) == /\ Day(run[r].from_date[1]) <= Day(Source[i].date)
                             /\ Day(Source[i].date) <= Day(run[r].to_date[1])
           IN  /\ \A i \in 1..SrcLen :
                     Source[i].id \in run[r].inserted => InRange(i)
               /\ \A i \in 1..SrcLen :
                     (/\ InRange(i)
                      /\ ~AlreadyProcessed(run[r].last_msg_id, Source[i].id))
                     => Source[i].id \in MyIds(r)

\* C13 (as claimed): at every moment of a run without failed write, the
\* count the run reports as newly written is the number of rows the run has
\* added to storage.
C13_WrittenCountIsRowsAdded ==
    \A r \in Runs :
        (/\ path \in {"extractor", "manual", "capture"}
         /\ run[r].pc \in {"loop", "done"}
         /\ run[r].failures = 0)
        => run[r].message_count = Cardinality(run[r].inserted)

\* C14 (as claimed): the last_backfilled_at of a channel changes only in the
\* step in which a run on that channel completes, and that step sets it to
\* the current time.
C14_StampedOnlyOnCompletion ==
    [][\A c \in Channels :
          /\ channels'[c].last_backfilled_at # channels[c].last_backfilled_at
             => \E r \in Runs : /\ run[r].channel = c
                                /\ run[r].pc = "loop" /\ run'[r].pc = "done"
          /\ \A r \in Runs :
                (/\ path \in {"backfill", "extractor"}
                 /\ run[r].channel = c
                 /\ run[r].pc = "loop" /\ run'[r].pc = "done")
                => channels'[c].last_backfilled_at = Some(Now(r, "end"))]_vars

C16_UnavailableWritesNothing ==
    [][(\E r \in Runs : run[r].pc # "failed" /\ run'[r].pc = "failed")
       => UNCHANGED <<messages, discord_messages, channels, discord_guilds,
                      discord_extraction_log, discord_status, processed,
                      entities>>]_vars

\* C17 (as claimed): a run that ended because its source could not be
\* reached has a non-zero exit code, so that run_cmd raises and the pipeline
\* stops; a run that completed has exit code 0 and run_cmd returns.
C17_ExitCodeTellsFailure ==
    \A r \in Runs :
        /\ run[r].pc = "failed" => /\ run[r].exit_code # Some(0)
                                   /\ run_cmd(run[r].exit_code[1]) = "RuntimeError"
        /\ run[r].pc = "done" => /\ run[r].exit_code = Some(0)
                                 /\ run_cmd(run[r].exit_code[1]) = "returned"

\* C18 (as claimed): a row of the extraction log is created with status
\* 'running', and a row that is 'completed' or 'failed' keeps its status.
C18_LogStatusIsFinal ==
    [][/\ Len(discord_extraction_log') >= Len(discord_extraction_log)
       /\ \A i \in DOMAIN discord_extraction_log' :
             IF i \in DOMAIN discord_extraction_log
             THEN discord_extraction_log[i] \in {"completed", "failed"}
                  => discord_extraction_log'[i] = discord_extraction_log[i]
             ELSE discord_extraction_log'[i] = "running"]_vars

C20_ProcessedOnce ==
    [][/\ \A x \in Table : \A y \in Table' :
             (/\ x.channel_id = y.channel_id
              /\ x.message_id = y.message_id
              /\ x.id \in processed)
             => y.id \in processed'
       /\ \A k \in DOMAIN entities' : entities'[k] <= 1]_vars

\* C21 (as claimed): whatever --process-limit the pipeline was given, its
\* processor loop ends; the summarizer and the statistics step start only
\* with no unprocessed message left in the channel; and after a child that
\* exited non-zero no later step starts.
C21_ProcessorLoopTerminates ==
    /\ (pipeline.pc = "count")
          ~> (pipeline.pc \in {"summarizer", "stats", "done", "error"})
    /\ [](pipeline.pc \in {"summarizer", "stats"}
             => count_unprocessed(pipeline.channel) = 0)
    /\ [][pipeline.returncode' # 0 => pipeline.pc' = "error"]_vars
    /\ [][pipeline.pc = "error" => pipeline' = pipeline]_vars

\* C22: a step of an extract_channel_messages call with dry_run set (its
\* start, a message, its end, its failure) leaves every table as it was.
C22_DryRunWritesNothing ==
    [][(\E r \in Runs : run'[r] # run[r] /\ run'[r].dry_run)
       => UNCHANGED <<discord_messages, channels, discord_guilds,
                      discord_extraction_log, discord_status>>]_vars

\* A dry-run call has ended, normally or on an error, on an object whose
\* earlier call opened an extraction log row.
C22_Witness ==
    \E r \in Runs :
        /\ path = "database"
        /\ run[r].dry_run
        /\ run[r].pc \in {"done", "raised", "failed"}
        /\ run[r].extraction_log_id # None
        /\ discord_messages # {}

\* C23 (as claimed): of any three requests the analyzer sends, the first
\* and the last are 60 seconds or more apart.
C23_TwoRequestsPerMinute ==
    Len(analyzer.sent) = 3 => analyzer.sent[1] >= Minute

\* C24 (as claimed): daily_requests never exceeds REQUESTS_PER_DAY, nor does
\* the number of requests sent on one calendar day.
C24_DailyLimit ==
    /\ analyzer.daily_requests <= REQUESTS_PER_DAY
    /\ analyzer.sent_today <= REQUESTS_PER_DAY

\* C25 (as claimed): when a sync of a channel has returned True, and no
\* sync was forced, every message the channel held when the sync selected
\* its messages has been part of exactly one successful sync.
C25_EachMessageInOneSync ==
    (/\ sync.pc = "idle"
     /\ sync.result = Some(TRUE)
     /\ ~sync.forced)
    => \A id \in sync.snap :
          /\ id \in DOMAIN gemini_tables.included
          /\ gemini_tables.included[id] = 1

\* C29: the step in which the analysis raises adds one log row with
\* success = 0, returns False and leaves last_gemini_export and
\* gemini_processed as they were; the next sync of the channel, called with
\* the same arguments, selects the same messages again; and last_gemini_export and gemini_processed change
\* only once the analysis result has been saved.
C29_FailedAnalysisChangesNothing ==
    [][/\ (sync.pc = "analyze" /\ sync'.pc = "idle")
          => /\ sync'.result = Some(FALSE)
             /\ gemini_tables'.gemini_analysis_logs =
                   Append(gemini_tables.gemini_analysis_logs,
                          [channel_id |-> sync.channel, success |-> 0])
             /\ gemini_tables'.last_gemini_export =
                   gemini_tables.last_gemini_export
             /\ gemini_tables'.gemini_processed =
                   gemini_tables.gemini_processed
       /\ (sync.pc = "idle" /\ sync'.retry)
          => sync.messages \subseteq sync'.messages
       /\ (\/ gemini_tables'.last_gemini_export #
                 gemini_tables.last_gemini_export
           \/ gemini_tables'.gemini_processed #
                 gemini_tables.gemini_processed)
          => sync.saved]_vars

\* A sync whose analysis raised was followed by a sync with the same
\* arguments that selected messages and returned True.
C29_Witness ==
    /\ sync.retry
    /\ sync.pc = "idle"
    /\ sync.result = Some(TRUE)
    /\ sync.messages # {}
    /\ gemini_tables.gemini_analysis_logs # << >>
    /\ gemini_tables.gemini_analysis_logs[1].success = 0

\* C26 (as claimed): the stages start in the order extraction, processing,
\* analysis; processing starts only after an extraction that did not fail;
\* analysis only if no stage failed; never processing or analysis with
\* --dry-run or --test-mode; neither extraction nor processing with
\* --analysis-only; and the exit code is 1 if a started stage failed.
C26_StagesGated ==
    LET p == discord_pipeline
        HasStarted(name) == \E i \in DOMAIN p.started : p.started[i] = name
    IN  /\ \A i, j \in DOMAIN p.started :
               i < j => <<p.started[i], p.started[j]>> \in
                           {<<"extraction", "processing">>,
                            <<"extraction", "analysis">>,
                            <<"processing", "analysis">>}
        /\ HasStarted("processing") => "extraction" \notin p.failed
        /\ HasStarted("analysis") => p.failed \subseteq {"analysis"}
        /\ ("dry_run" \in p.args \/ "test_mode" \in p.args)
              => ~HasStarted("processing") /\ ~HasStarted("analysis")
        /\ "analysis_only" \in p.args
              => ~HasStarted("extraction") /\ ~HasStarted("processing")
        /\ (p.pc = "exited" /\ p.failed # {}) => p.exit_code = Some(1)

\* The entity rows the database holds for a message row.
EntityRows(x) ==
    IF EntityKey(x) \in DOMAIN entities THEN entities[EntityKey(x)] ELSE 0

\* C27: in every database state process_batch can leave, also after a crash
\* at any statement, a message has processed = 0 and no entity rows, or
\* processed = 1 and its entity rows; and each batch has committed the entity
\* rows of exactly the messages whose mark it has committed.
C27_EntitiesAndMarkTogether ==
    path = "backfill" =>
        /\ \A x \in messages : x.id \in processed <=> EntityRows(x) > 0
        /\ \A b \in Batches : batches[b].stored = batches[b].marked

\* A batch has committed one message and died with the next one's entity
\* rows inserted and not committed.
C27_Witness ==
    /\ path = "backfill"
    /\ \E b \in Batches :
          /\ batches[b].pc = "crashed"
          /\ batches[b].stored # {}
          /\ \E x \in batches[b].lost : x.id \notin processed

\* C28 (as claimed): no message has entity rows from more than one batch.
C28_NoDuplicateEntityRows ==
    \A x \in Table : EntityRows(x) <= 1

====
